---------------------------- MODULE Spec2Model ----------------------------
(***************************************************************************)
(* A model of unknown-engine-rs: the tangent/bitangent pass of             *)
(* resources::load_obj_model, the camera and its controller (camera.rs),   *)
(* the part of State and of the event loop of lib.rs that drives them, and *)
(* the material indices of a loaded model as model.rs draws them.          *)
(*                                                                         *)
(* Numbers.  The mesh pass is modelled over f32 values: a finite value is  *)
(* <<"fin", m, e>>, standing for m * 2^e with 2^23 <= |m| < 2^24 or m = 0, *)
(* an infinity is <<"inf", 1, 0>> or <<"inf", -1, 0>>, and NaN is          *)
(* <<"nan", 0, 0>>.  Sums, products and quotients are rounded to nearest,  *)
(* ties to even, as binary32 rounds them; the exponent is not bounded (no  *)
(* overflow, no subnormals) and the sign of zero is not kept.              *)
(* The camera is modelled in fixed point: angles in                        *)
(* 1/AngleScale rad, lengths in 1/PosScale world units, sines and cosines  *)
(* in 1/TrigScale, time in milliseconds, sensitivity in tenths.            *)
(***************************************************************************)
EXTENDS Integers, Sequences, FiniteSets, TLC

VARIABLES
    \* ---- resources::load_obj_model, one mesh of the .obj file
    mesh,                \* the tobj mesh: positions, texcoords, normals, indices
    mpc,                 \* where the closure of lines 128-246 stands
    vertices,            \* Vec<ModelVertex>
    triangles_included,  \* Vec<i32>
    chunk,               \* number of chunks of indices.chunks(3) consumed
    \* ---- camera.rs
    camera,              \* Camera: position, yaw, pitch
    camera_controller,   \* CameraController
    \* ---- history, for stating what a call did
    last_call,           \* the last call: its name, arguments, result and the
                         \* camera and controller it was applied to
    pending_inputs,      \* the process_mouse and process_scroll calls since the last update_camera
    steps,               \* number of calls, or of events handled, so far
    \* ---- lib.rs: State and the event loop of run
    size,                \* State::size
    config,              \* State::config: width and height of the SurfaceConfiguration
    depth_texture,       \* extent of State::depth_texture
    projection,          \* State::projection
    mouse_pressed,       \* State::mouse_pressed
    camera_uniform,      \* State::camera_uniform: what update_view_proj built it from
    control_flow,        \* *control_flow as the loop reads it
    phase,               \* where the event loop stands in its iteration
    frame_calls,         \* the calls made by the handlers of this iteration, in order
    \* ---- camera.rs: Projection::calc_matrix applied to a point
    view_point,          \* a perspective matrix and a point in view space
    clip_point,          \* the point Projection::calc_matrix maps it to, <<>> before
    \* ---- resources::load_obj_model and model.rs: the materials of a model
    obj,                 \* what tobj parsed: the material_id of each mesh, the materials
    model,               \* the model::Model built from it
    dpc,                 \* where loading and drawing stand
    drawn                \* number of meshes draw_model_instanced has drawn

meshVars == <<mesh, mpc, vertices, triangles_included, chunk>>

camVars == <<camera, camera_controller, last_call, pending_inputs, steps>>

appVars == <<size, config, depth_texture, projection, mouse_pressed,
             camera_uniform, control_flow, phase, frame_calls>>

clipVars == <<view_point, clip_point>>

drawVars == <<obj, model, dpc, drawn>>

vars == <<mesh, mpc, vertices, triangles_included, chunk,
          camera, camera_controller, last_call, pending_inputs, steps,
          size, config, depth_texture, projection, mouse_pressed,
          camera_uniform, control_flow, phase, frame_calls,
          view_point, clip_point,
          obj, model, dpc, drawn>>

-----------------------------------------------------------------------------
(* f32 values of the mesh pass: IEEE 754 binary32, round to nearest even   *)

Abs(n) == IF n < 0 THEN -n ELSE n

Sgn(n) == IF n > 0 THEN 1 ELSE IF n < 0 THEN -1 ELSE 0

\* f32::MANTISSA_DIGITS: the bits of a significand, the implicit one included
MantissaBits == 24

\* the number of bits of n >= 0
RECURSIVE BitLen(_)
BitLen(n) == IF n = 0 THEN 0 ELSE 1 + BitLen(n \div 2)

NaN == <<"nan", 0, 0>>

Inf == <<"inf", 1, 0>>

FZero == <<"fin", 0, 0>>

\* n >= 0 shifted right by s bits, rounded to nearest, ties to even
RoundShift(n, s) ==
    IF s = 0 THEN n
    ELSE LET q    == n \div (2 ^ s)
             r    == n % (2 ^ s)
             half == 2 ^ (s - 1)
         IN  IF r > half \/ (r = half /\ q % 2 = 1) THEN q + 1 ELSE q

\* n >= 0 shifted right by s bits, the bits shifted out kept as a sticky
\* lowest bit
JamShift(n, s) ==
    LET q == n \div (2 ^ s)
    IN  IF n % (2 ^ s) # 0 /\ q % 2 = 0 THEN q + 1 ELSE q

\* the f32 nearest to sign * n * 2^e, for an integer 0 <= n < 2^31
FPack(sign, n, e) ==
    IF n = 0 THEN FZero
    ELSE LET bl == BitLen(n)
         IN  IF bl <= MantissaBits
             THEN <<"fin", sign * n * 2 ^ (MantissaBits - bl), e - (MantissaBits - bl)>>
             ELSE LET m == RoundShift(n, bl - MantissaBits)
                  IN  IF m = 2 ^ MantissaBits
                      THEN <<"fin", sign * 2 ^ (MantissaBits - 1), e + (bl - MantissaBits) + 1>>
                      ELSE <<"fin", sign * m, e + (bl - MantissaBits)>>

\* n as f32
FInt(n) == FPack(Sgn(n), Abs(n), 0)

IsFinite(a) == a[1] = "fin"

FNeg(a) == <<a[1], -a[2], a[3]>>

\* the sum of two finite values other than 0, x the one of larger exponent:
\* three guard bits, the bits of y below them kept sticky
AddAligned(x, y) ==
    LET d == x[3] - y[3]
    IN  IF d > MantissaBits + 2 THEN x
        ELSE LET sum == x[2] * 8 + Sgn(y[2]) * JamShift(Abs(y[2]) * 8, d)
             IN  FPack(Sgn(sum), Abs(sum), x[3] - 3)

\* a + b: NaN is absorbing, inf + (-inf) is NaN
FAdd(a, b) ==
    IF a = NaN \/ b = NaN THEN NaN
    ELSE IF a[1] = "inf" /\ b[1] = "inf" THEN (IF a = b THEN a ELSE NaN)
    ELSE IF a[1] = "inf" THEN a
    ELSE IF b[1] = "inf" THEN b
    ELSE IF a[2] = 0 THEN b
    ELSE IF b[2] = 0 THEN a
    ELSE IF a[3] >= b[3] THEN AddAligned(a, b) ELSE AddAligned(b, a)

FSub(a, b) == FAdd(a, FNeg(b))

\* the product of two significands, as its leading 26 bits and a sticky bit,
\* with the number of bits left out: the 48-bit product is formed from 12-bit
\* halves
MulWide(x, y) ==
    LET x1  == x \div 4096
        x0  == x % 4096
        y1  == y \div 4096
        y0  == y % 4096
        mid == x1 * y0 + x0 * y1
        low == x0 * y0 + (mid % 4096) * 4096
        lo  == low % (2 ^ 24)
        hi  == x1 * y1 + mid \div 4096 + low \div (2 ^ 24)
        s   == BitLen(hi) - 2
        top == hi * 2 ^ (24 - s) + lo \div (2 ^ s)
    IN  <<IF lo % (2 ^ s) # 0 /\ top % 2 = 0 THEN top + 1 ELSE top, s>>

\* a * b: 0 * inf is NaN
FMul(a, b) ==
    IF a = NaN \/ b = NaN THEN NaN
    ELSE IF a[1] = "inf" \/ b[1] = "inf"
         THEN (IF a[2] = 0 \/ b[2] = 0 THEN NaN ELSE <<"inf", Sgn(a[2]) * Sgn(b[2]), 0>>)
    ELSE IF a[2] = 0 \/ b[2] = 0 THEN FZero
    ELSE LET w == MulWide(Abs(a[2]), Abs(b[2]))
         IN  FPack(Sgn(a[2]) * Sgn(b[2]), w[1], a[3] + b[3] + w[2])

\* long division, six bits at a time: <<quotient, remainder>> of
\* (q * y + r) * 2^bits by y
RECURSIVE DivStep(_, _, _, _)
DivStep(q, r, y, bits) ==
    IF bits = 0 THEN <<q, r>>
    ELSE LET k == IF bits < 6 THEN bits ELSE 6
         IN  DivStep(q * 2 ^ k + (r * 2 ^ k) \div y, (r * 2 ^ k) % y, y, bits - k)

\* a / b: x / 0 is an infinity, 0 / 0 and inf / inf are NaN
FDiv(a, b) ==
    IF a = NaN \/ b = NaN THEN NaN
    ELSE IF a[1] = "inf" THEN (IF b[1] = "inf" THEN NaN
                               ELSE <<"inf", a[2] * (IF b[2] < 0 THEN -1 ELSE 1), 0>>)
    ELSE IF b[1] = "inf" THEN FZero
    ELSE IF b[2] = 0 THEN (IF a[2] = 0 THEN NaN ELSE <<"inf", Sgn(a[2]), 0>>)
    ELSE IF a[2] = 0 THEN FZero
    ELSE LET x  == Abs(a[2])
             y  == Abs(b[2])
             qr == DivStep(x \div y, x % y, y, MantissaBits + 2)
         IN  FPack(Sgn(a[2]) * Sgn(b[2]),
                   2 * qr[1] + (IF qr[2] # 0 THEN 1 ELSE 0),
                   a[3] - b[3] - (MantissaBits + 3))

\* 1.0 / a
FRecip(a) == FDiv(FInt(1), a)

VZero == <<FZero, FZero, FZero>>

VAdd(u, v) == <<FAdd(u[1], v[1]), FAdd(u[2], v[2]), FAdd(u[3], v[3])>>

VSub(u, v) == <<FSub(u[1], v[1]), FSub(u[2], v[2]), FSub(u[3], v[3])>>

VScale(u, f) == <<FMul(u[1], f), FMul(u[2], f), FMul(u[3], f)>>

VFinite(u) == IsFinite(u[1]) /\ IsFinite(u[2]) /\ IsFinite(u[3])

-----------------------------------------------------------------------------
(* resources::load_obj_model: the meshes the pass is run on                *)

MaxTriangles == 3

\* four vertices, flattened as tobj hands them over (stride 3)
Positions == <<0,0,0,  1,0,0,  0,1,0,  1,1,0>>

\* texture coordinates (stride 2): a regular mapping, one stretched tenfold
\* along u, a sheared one, one whose first three vertices are collinear in
\* uv, one that lacks the last vertex, one too long
TexcoordChoices ==
    { <<0,0,  1,0,  0,1,  1,1>>,
      <<0,0,  10,0,  0,1,  10,1>>,
      <<0,0,  1,0,  0,1,  2,1>>,
      <<0,0,  1,0,  2,0,  1,1>>,
      <<0,0,  1,0,  0,1>>,
      <<0,0,  1,0,  0,1,  1,1,  0,0>> }

\* normals (stride 3): one per vertex, or the last one missing
NormalChoices ==
    { <<0,0,1,  0,0,1,  0,0,1,  0,0,1>>,
      <<0,0,1,  0,0,1,  0,0,1>> }

\* the triangles an index list is made of; vertex 4 does not exist
TriangleChoices ==
    { <<0,1,2>>, <<1,3,2>>, <<2,1,0>>, <<0,0,1>>, <<0,1,4>> }

RECURSIVE IndexLists(_)
IndexLists(k) ==
    IF k = 0 THEN { <<>> }
    ELSE LET S == IndexLists(k - 1)
         IN  S \cup { l \o t : l \in { x \in S : Len(x) = 3 * (k - 1) },
                               t \in TriangleChoices }

MeshInputs ==
    [ positions : {Positions},
      texcoords : TexcoordChoices,
      normals   : NormalChoices,
      indices   : IndexLists(MaxTriangles) ]

\* number of chunks of indices.chunks(3)
NumChunks(m) == (Len(m.indices) + 2) \div 3

\* the c-th chunk (1-based) of indices.chunks(3)
Chunk(m, c) == SubSeq(m.indices, 3 * c - 2, IF 3 * c < Len(m.indices) THEN 3 * c ELSE Len(m.indices))

Vec3At(flat, i) == <<FInt(flat[3 * i + 1]), FInt(flat[3 * i + 2]), FInt(flat[3 * i + 3])>>

Vec2At(flat, i) == <<FInt(flat[2 * i + 1]), FInt(flat[2 * i + 2])>>

\* the vertex count the code derives: positions.len() / 3
VertexCount(m) == Len(m.positions) \div 3

\* whether every slice index of the vertex construction is in bounds
VertexReadsInBounds(m) ==
    \A i \in 0 .. VertexCount(m) - 1 :
        /\ 3 * i + 2 < Len(m.positions)
        /\ 2 * i + 1 < Len(m.texcoords)
        /\ 3 * i + 2 < Len(m.normals)

NewVertices(m) ==
    [ i \in 1 .. VertexCount(m) |->
        [ position   |-> Vec3At(m.positions, i - 1),
          tex_coords |-> Vec2At(m.texcoords, i - 1),
          normal     |-> Vec3At(m.normals, i - 1),
          tangent    |-> VZero,
          bitangent  |-> VZero ] ]

\* vertices[i as usize], i a 0-based u32 index
VertexAt(vs, i) == vs[i + 1]

\* delta_uv1.x * delta_uv2.y - delta_uv1.y * delta_uv2.x
UvDeterminant(v0, v1, v2) ==
    LET delta_uv1 == <<FSub(v1.tex_coords[1], v0.tex_coords[1]), FSub(v1.tex_coords[2], v0.tex_coords[2])>>
        delta_uv2 == <<FSub(v2.tex_coords[1], v0.tex_coords[1]), FSub(v2.tex_coords[2], v0.tex_coords[2])>>
    IN  FSub(FMul(delta_uv1[1], delta_uv2[2]), FMul(delta_uv1[2], delta_uv2[1]))

\* r with a guard that gives 0 to a triangle whose uv determinant is 0
TriangleR_Guarded(v0, v1, v2) ==
    IF UvDeterminant(v0, v1, v2) = FZero THEN FZero
    ELSE FRecip(UvDeterminant(v0, v1, v2))

\* r of a triangle: 1.0 / (delta_uv1.x * delta_uv2.y - delta_uv1.y * delta_uv2.x)
TriangleR(v0, v1, v2) == FRecip(UvDeterminant(v0, v1, v2))

\* tangent of a triangle
TriangleTangent(v0, v1, v2) ==
    LET delta_pos1 == VSub(v1.position, v0.position)
        delta_pos2 == VSub(v2.position, v0.position)
        delta_uv1y == FSub(v1.tex_coords[2], v0.tex_coords[2])
        delta_uv2y == FSub(v2.tex_coords[2], v0.tex_coords[2])
    IN  VScale(VSub(VScale(delta_pos1, delta_uv2y), VScale(delta_pos2, delta_uv1y)),
               TriangleR(v0, v1, v2))

\* the bitangent without its flip: scaled by r
TriangleBitangent_Unflipped(v0, v1, v2) ==
    LET delta_pos1 == VSub(v1.position, v0.position)
        delta_pos2 == VSub(v2.position, v0.position)
        delta_uv1x == FSub(v1.tex_coords[1], v0.tex_coords[1])
        delta_uv2x == FSub(v2.tex_coords[1], v0.tex_coords[1])
    IN  VScale(VSub(VScale(delta_pos2, delta_uv1x), VScale(delta_pos1, delta_uv2x)),
               TriangleR(v0, v1, v2))

\* bitangent of a triangle, flipped
TriangleBitangent(v0, v1, v2) ==
    LET delta_pos1 == VSub(v1.position, v0.position)
        delta_pos2 == VSub(v2.position, v0.position)
        delta_uv1x == FSub(v1.tex_coords[1], v0.tex_coords[1])
        delta_uv2x == FSub(v2.tex_coords[1], v0.tex_coords[1])
    IN  VScale(VSub(VScale(delta_pos2, delta_uv1x), VScale(delta_pos1, delta_uv2x)),
               FNeg(TriangleR(v0, v1, v2)))

\* the tangent stored over what was accumulated
AddTangent_Overwrites(vs, i, t) == [vs EXCEPT ![i + 1].tangent = t]

\* vertices[i].tangent = tangent + vertices[i].tangent
AddTangent(vs, i, t) == [vs EXCEPT ![i + 1].tangent = VAdd(t, @)]

\* vertices[i].bitangent = bitangent + vertices[i].bitangent
AddBitangent(vs, i, b) == [vs EXCEPT ![i + 1].bitangent = VAdd(b, @)]

\* the six assignments of lines 195-206, in their order
Accumulate(vs, c, t, b) ==
    AddBitangent(AddBitangent(AddBitangent(
        AddTangent(AddTangent(AddTangent(vs, c[1], t), c[2], t), c[3], t),
        c[1], b), c[2], b), c[3], b)

\* triangles_included[c[0]] += 1; ... [c[1]] ...; ... [c[2]] ...
CountTriangle(ti, c) ==
    LET a == [ti EXCEPT ![c[1] + 1] = @ + 1]
        b == [a EXCEPT ![c[2] + 1] = @ + 1]
    IN  [b EXCEPT ![c[3] + 1] = @ + 1]

\* the averaging loop leaving the sums as they are
AverageVertex_KeepsSum(v, n) == v

\* one vertex of the averaging loop: denom = 1.0 / n as f32
AverageVertex(v, n) ==
    LET denom == FRecip(FInt(n))
    IN  [v EXCEPT !.tangent = VScale(@, denom), !.bitangent = VScale(@, denom)]

MeshInit ==
    /\ mesh \in MeshInputs
    /\ mpc = "vertices"
    /\ vertices = <<>>
    /\ triangles_included = <<>>
    /\ chunk = 0

\* lines 133-156: the vertices are built, or a slice index is out of bounds
BuildVertices ==
    /\ mpc = "vertices"
    /\ IF VertexReadsInBounds(mesh)
       THEN /\ vertices' = NewVertices(mesh)
            /\ triangles_included' = [i \in 1 .. VertexCount(mesh) |-> 0]
            /\ mpc' = "triangles"
       ELSE /\ mpc' = "panicked"
            /\ UNCHANGED <<vertices, triangles_included>>
    /\ UNCHANGED <<mesh, chunk>>
    /\ UNCHANGED <<camVars, appVars, clipVars, drawVars>>

\* lines 159-212: one iteration of the loop over indices.chunks(3)
ProcessTriangle ==
    /\ mpc = "triangles"
    /\ chunk < NumChunks(mesh)
    /\ LET c == Chunk(mesh, chunk + 1)
       IN  IF Len(c) = 3 /\ \A k \in 1 .. 3 : c[k] < Len(vertices)
           THEN LET v0 == VertexAt(vertices, c[1])
                    v1 == VertexAt(vertices, c[2])
                    v2 == VertexAt(vertices, c[3])
                IN  /\ vertices' = Accumulate(vertices, c,
                                              TriangleTangent(v0, v1, v2),
                                              TriangleBitangent(v0, v1, v2))
                    /\ triangles_included' = CountTriangle(triangles_included, c)
                    /\ chunk' = chunk + 1
                    /\ mpc' = "triangles"
           ELSE /\ mpc' = "panicked"
                /\ UNCHANGED <<vertices, triangles_included, chunk>>
    /\ UNCHANGED mesh
    /\ UNCHANGED <<camVars, appVars, clipVars, drawVars>>

\* lines 214-220: the averaging loop, run when the chunks are used up
Average ==
    /\ mpc = "triangles"
    /\ chunk = NumChunks(mesh)
    /\ vertices' = [i \in DOMAIN vertices |-> AverageVertex(vertices[i], triangles_included[i])]
    /\ mpc' = "done"
    /\ UNCHANGED <<mesh, triangles_included, chunk>>
    /\ UNCHANGED <<camVars, appVars, clipVars, drawVars>>

-----------------------------------------------------------------------------
(* camera.rs in fixed point                                                *)

\* sines and cosines are held in 1/TrigScale
TrigScale == 100

\* sensitivity is held in 1/SensScale
SensScale == 10

\* dt.as_secs_f32(): a Duration in milliseconds is dt / MsPerSec seconds
MsPerSec == 1000

\* angles are held in 1/AngleScale rad, so that
\* rotate * sensitivity * dt is the integer rotate * sens * ms
AngleScale == SensScale * MsPerSec

\* lengths are held in 1/PosScale, so that every displacement of
\* update_camera is an integer
PosScale == TrigScale * SensScale * MsPerSec

\* std::f32::consts::FRAC_PI_2, in 1/AngleScale rad
FRAC_PI_2 == 15708

\* FRAC_PI_2 - 0.0001
SAFE_FRAC_PI_2 == FRAC_PI_2 - 1

\* a / b rounded to the nearest integer, b > 0
RDiv(a, b) == Sgn(a) * ((2 * Abs(a) + b) \div (2 * b))

\* Deg<f32> into Rad<f32>
DegToRad(d) == RDiv(d * 2 * FRAC_PI_2, 180)

\* sin of an angle in [0, pi], by Bhaskara's rational approximation
\* 16 x (pi - x) / (5 pi^2 - 4 x (pi - x)), x quartered to stay within 32 bits
SinHalfTurn(x) ==
    LET pi == FRAC_PI_2 \div 2
        h  == x \div 4
        p  == h * (pi - h)
    IN  RDiv(16 * p, RDiv(5 * pi * pi - 4 * p, TrigScale))

\* f32::sin, in 1/TrigScale
Sin(a) ==
    LET x == a % (4 * FRAC_PI_2)
    IN  IF x <= 2 * FRAC_PI_2 THEN SinHalfTurn(x) ELSE -SinHalfTurn(x - 2 * FRAC_PI_2)

\* f32::cos, in 1/TrigScale
Cos(a) == Sin(a + FRAC_PI_2)

RECURSIVE SqrtIter(_, _)
SqrtIter(n, x) ==
    LET y == (x + n \div x) \div 2
    IN  IF y >= x THEN x ELSE SqrtIter(n, y)

\* floor of the square root
ISqrt(n) == IF n = 0 THEN 0 ELSE SqrtIter(n, n)

\* InnerSpace::normalize of a vector held in 1/TrigScale
Normalize(v) ==
    LET len == ISqrt(v[1] * v[1] + v[2] * v[2] + v[3] * v[3])
    IN  <<RDiv(v[1] * TrigScale, len), RDiv(v[2] * TrigScale, len), RDiv(v[3] * TrigScale, len)>>

\* Camera::new
CameraNew(position, yaw, pitch) ==
    [ position |-> position, yaw |-> yaw, pitch |-> pitch ]

\* Camera::calc_matrix: the direction it hands to look_to_rh
CalcMatrixDirection(cam) == Normalize(<<Cos(cam.yaw), Sin(cam.pitch), Sin(cam.yaw)>>)

\* CameraController::new
CameraControllerNew(speed, sensitivity) ==
    [ amount_left       |-> 0,
      amount_right      |-> 0,
      amount_forward    |-> 0,
      amount_backward   |-> 0,
      amount_up         |-> 0,
      amount_down       |-> 0,
      rotate_horizontal |-> 0,
      rotate_vertical   |-> 0,
      scroll            |-> 0,
      speed             |-> speed,
      sensitivity       |-> sensitivity ]

\* the fields of a CameraController
ControllerFields ==
    { "amount_left", "amount_right", "amount_forward", "amount_backward",
      "amount_up", "amount_down", "rotate_horizontal", "rotate_vertical",
      "scroll", "speed", "sensitivity" }

\* the VirtualKeyCode values the model draws keys from; Escape and RShift
\* fall to the wildcard arm of process_keyboard
VirtualKeyCodes ==
    { "W", "Up", "S", "Down", "A", "Left", "D", "Right", "Space", "LShift",
      "Escape", "RShift" }

ElementStates == { "Pressed", "Released" }

\* process_keyboard with the arrow-key aliases forgotten
KeyField_NoArrows(key) ==
    CASE key = "W"      -> "amount_forward"
      [] key = "S"      -> "amount_backward"
      [] key = "A"      -> "amount_left"
      [] key = "D"      -> "amount_right"
      [] key = "Space"  -> "amount_up"
      [] key = "LShift" -> "amount_down"
      [] OTHER          -> "none"

\* the match of process_keyboard: the field a key is bound to, "none" for
\* the wildcard arm
KeyField(key) ==
    CASE key \in {"W", "Up"}      -> "amount_forward"
      [] key \in {"S", "Down"}    -> "amount_backward"
      [] key \in {"A", "Left"}    -> "amount_left"
      [] key \in {"D", "Right"}   -> "amount_right"
      [] key = "Space"            -> "amount_up"
      [] key = "LShift"           -> "amount_down"
      [] OTHER                    -> "none"

\* the amount of a released key taken as -1.0
KeyAmount_Signed(state) == IF state = "Pressed" THEN 1 ELSE -1

\* let amount = if state == ElementState::Pressed { 1.0 } else { 0.0 }
KeyAmount(state) == IF state = "Pressed" THEN 1 ELSE 0

\* process_keyboard keeping an intent set until every press of it is undone:
\* a release does not clear an amount that is already 1
ProcessKeyboard_Sticky(c, key, state) ==
    IF KeyField(key) = "none" THEN c
    ELSE [c EXCEPT ![KeyField(key)] =
              IF c[KeyField(key)] = 1 THEN 1 ELSE KeyAmount(state)]

\* CameraController::process_keyboard: the controller it leaves
ProcessKeyboard(c, key, state) ==
    IF KeyField(key) = "none" THEN c
    ELSE [c EXCEPT ![KeyField(key)] = KeyAmount(state)]

\* process_keyboard reporting every key as taken
ProcessKeyboardResult_AlwaysTrue(key, state) == TRUE

\* CameraController::process_keyboard: the value it returns
ProcessKeyboardResult(key, state) == KeyField(key) # "none"

\* process_mouse adding to the pending deltas instead of overwriting them
ProcessMouse_Accumulates(c, mouse_dx, mouse_dy) ==
    [c EXCEPT !.rotate_horizontal = @ + mouse_dx, !.rotate_vertical = @ + mouse_dy]

\* CameraController::process_mouse
ProcessMouse(c, mouse_dx, mouse_dy) ==
    [c EXCEPT !.rotate_horizontal = mouse_dx, !.rotate_vertical = mouse_dy]

\* process_scroll adding to the pending scroll instead of overwriting it
ProcessScroll_Accumulates(c, delta) ==
    [c EXCEPT !.scroll = @ - (IF delta.kind = "Line" THEN delta.y * 100 ELSE delta.y)]

\* CameraController::process_scroll; a delta is [kind, y], kind "Line" or "Pixel"
ProcessScroll(c, delta) ==
    [c EXCEPT !.scroll = -(IF delta.kind = "Line" THEN delta.y * 100 ELSE delta.y)]

\* the clamp with its two comparisons swapped
ClampPitch_Swapped(pitch) ==
    IF pitch > -SAFE_FRAC_PI_2 THEN -SAFE_FRAC_PI_2
    ELSE IF pitch < SAFE_FRAC_PI_2 THEN SAFE_FRAC_PI_2
    ELSE pitch

\* the clamp without its upper branch
ClampPitch_NoUpper(pitch) ==
    IF pitch < -SAFE_FRAC_PI_2 THEN -SAFE_FRAC_PI_2 ELSE pitch

\* the clamp of lines 200-204
ClampPitch(pitch) ==
    IF pitch < -SAFE_FRAC_PI_2 THEN -SAFE_FRAC_PI_2
    ELSE IF pitch > SAFE_FRAC_PI_2 THEN SAFE_FRAC_PI_2
    ELSE pitch

\* the scroll-ward vector of lines 182-184
Scrollward(yaw, pitch) ==
    Normalize(<<RDiv(Cos(pitch) * Cos(yaw), TrigScale),
                Sin(pitch),
                RDiv(Cos(pitch) * Sin(yaw), TrigScale)>>)

\* forward with its x and z components exchanged
Forward_AlongZ(yaw) == Normalize(<<Sin(yaw), 0, Cos(yaw)>>)

\* forward with an upward component
Forward_Climbing(yaw) == Normalize(<<Cos(yaw), TrigScale, Sin(yaw)>>)

\* the forward vector of line 174
Forward(yaw) == Normalize(<<Cos(yaw), 0, Sin(yaw)>>)

\* the right vector of line 175
Right(yaw) == Normalize(<<-Sin(yaw), 0, Cos(yaw)>>)

\* update_camera with the rotation applied before the position changes
UpdateCamera_RotatesFirst(c, cam, dt) ==
    LET yaw        == cam.yaw + c.rotate_horizontal * c.sensitivity * dt
        pitch      == ClampPitch(cam.pitch + (-c.rotate_vertical) * c.sensitivity * dt)
        forward    == Forward(yaw)
        right      == Right(yaw)
        fwd        == (c.amount_forward - c.amount_backward) * c.speed * dt * SensScale
        side       == (c.amount_right - c.amount_left) * c.speed * dt * SensScale
        scrollward == Scrollward(yaw, pitch)
        zoom       == c.scroll * c.speed * c.sensitivity * dt
        rise       == (c.amount_up - c.amount_down) * c.speed * dt * TrigScale * SensScale
    IN  [ position |->
            << cam.position[1] + forward[1] * fwd + right[1] * side + scrollward[1] * zoom,
               cam.position[2] + forward[2] * fwd + right[2] * side + scrollward[2] * zoom + rise,
               cam.position[3] + forward[3] * fwd + right[3] * side + scrollward[3] * zoom >>,
          yaw   |-> yaw,
          pitch |-> pitch ]

\* CameraController::update_camera: the camera it leaves; dt in milliseconds
UpdateCamera(c, cam, dt) ==
    LET forward    == Forward(cam.yaw)
        right      == Right(cam.yaw)
        fwd        == (c.amount_forward - c.amount_backward) * c.speed * dt * SensScale
        side       == (c.amount_right - c.amount_left) * c.speed * dt * SensScale
        scrollward == Scrollward(cam.yaw, cam.pitch)
        zoom       == c.scroll * c.speed * c.sensitivity * dt
        rise       == (c.amount_up - c.amount_down) * c.speed * dt * TrigScale * SensScale
        yaw        == cam.yaw + c.rotate_horizontal * c.sensitivity * dt
        pitch      == cam.pitch + (-c.rotate_vertical) * c.sensitivity * dt
    IN  [ position |->
            << cam.position[1] + forward[1] * fwd + right[1] * side + scrollward[1] * zoom,
               cam.position[2] + forward[2] * fwd + right[2] * side + scrollward[2] * zoom + rise,
               cam.position[3] + forward[3] * fwd + right[3] * side + scrollward[3] * zoom >>,
          yaw   |-> yaw,
          pitch |-> ClampPitch(pitch) ]

\* update_camera clearing the intents along with the deltas
UpdateController_ClearsIntents(c) ==
    [c EXCEPT !.scroll = 0, !.rotate_horizontal = 0, !.rotate_vertical = 0,
              !.amount_forward = 0, !.amount_backward = 0, !.amount_left = 0,
              !.amount_right = 0, !.amount_up = 0, !.amount_down = 0]

\* update_camera without the reset of the rotation deltas
UpdateController_KeepsRotation(c) == [c EXCEPT !.scroll = 0]

\* CameraController::update_camera: the controller it leaves
UpdateController(c) ==
    [c EXCEPT !.scroll = 0, !.rotate_horizontal = 0, !.rotate_vertical = 0]

-----------------------------------------------------------------------------
(* The calls made on a camera and its controller                           *)

MaxSteps == 4

\* the speed and sensitivity State::new passes to CameraController::new: 4.0 and 0.4
Speed == 4

Sensitivity == 4

\* the position State::new passes to Camera::new: (0.0, 5.0, 10.0)
StartPosition == <<0, 5 * PosScale, 10 * PosScale>>

\* <<yaw, pitch>> passed to Camera::new, in degrees: those of State::new, a
\* level camera looking along +x, and a pitch beyond a quarter turn
CameraChoices == { <<-90, -20>>, <<0, 0>>, <<-90, 100>> }

\* mouse_dx, mouse_dy of process_mouse
MouseDeltas == { <<7, 300>>, <<-3, -300>>, <<2, 1>> }

\* MouseScrollDelta values
ScrollDeltas == { [kind |-> "Line", y |-> 1], [kind |-> "Pixel", y |-> -30] }

\* durations that may be negative, as a signed number of milliseconds would be
Durations_Signed == { -16, 0, 16, 1000 }

\* dt of update_camera, a Duration in whole milliseconds: none elapsed, one
\* frame at 60 Hz, one second; a Duration is unsigned
Durations == { 0, 16, 1000 }

\* a call as last_call records it, with the state it was applied to
Call(op, args, result) ==
    [ op |-> op, args |-> args, result |-> result,
      camera |-> camera, camera_controller |-> camera_controller,
      pending_inputs |-> pending_inputs ]

CamInit ==
    /\ \E a \in CameraChoices :
           camera = CameraNew(StartPosition, DegToRad(a[1]), DegToRad(a[2]))
    /\ camera_controller = CameraControllerNew(Speed, Sensitivity)
    /\ pending_inputs = <<>>
    /\ last_call = Call("new", <<>>, FALSE)
    /\ steps = 0

CallProcessKeyboard ==
    /\ steps < MaxSteps
    /\ \E key \in VirtualKeyCodes, state \in ElementStates :
           /\ camera_controller' = ProcessKeyboard(camera_controller, key, state)
           /\ last_call' = Call("process_keyboard", <<key, state>>, ProcessKeyboardResult(key, state))
    /\ steps' = steps + 1
    /\ UNCHANGED <<camera, pending_inputs>>
    /\ UNCHANGED <<meshVars, appVars, clipVars, drawVars>>

CallProcessMouse ==
    /\ steps < MaxSteps
    /\ \E d \in MouseDeltas :
           /\ camera_controller' = ProcessMouse(camera_controller, d[1], d[2])
           /\ last_call' = Call("process_mouse", d, FALSE)
           /\ pending_inputs' = Append(pending_inputs, <<"process_mouse", d>>)
    /\ steps' = steps + 1
    /\ UNCHANGED camera
    /\ UNCHANGED <<meshVars, appVars, clipVars, drawVars>>

CallProcessScroll ==
    /\ steps < MaxSteps
    /\ \E delta \in ScrollDeltas :
           /\ camera_controller' = ProcessScroll(camera_controller, delta)
           /\ last_call' = Call("process_scroll", <<delta>>, FALSE)
           /\ pending_inputs' = Append(pending_inputs, <<"process_scroll", delta>>)
    /\ steps' = steps + 1
    /\ UNCHANGED camera
    /\ UNCHANGED <<meshVars, appVars, clipVars, drawVars>>

CallUpdateCamera ==
    /\ steps < MaxSteps
    /\ \E dt \in Durations :
           /\ camera' = UpdateCamera(camera_controller, camera, dt)
           /\ camera_controller' = UpdateController(camera_controller)
           /\ last_call' = Call("update_camera", <<dt>>, FALSE)
    /\ pending_inputs' = <<>>
    /\ steps' = steps + 1
    /\ UNCHANGED <<meshVars, appVars, clipVars, drawVars>>

-----------------------------------------------------------------------------
(* lib.rs: State and the event loop of run                                 *)

\* window.inner_size() when State::new runs
WindowSize == [width |-> 800, height |-> 600]

\* the sizes Resized and ScaleFactorChanged carry
NewSizes ==
    { [width |-> 400, height |-> 300],
      [width |-> 800, height |-> 0],
      [width |-> 0,   height |-> 0] }

\* the keys of the KeyboardInput events the loop is fed
EventKeys == { "W", "Escape", "RShift" }

\* the buttons of the MouseInput events the loop is fed
MouseButtons == { "Left", "Right" }

\* the deltas of the MouseMotion events the loop is fed
MotionDeltas == { <<7, 300>> }

\* the deltas of the MouseWheel events the loop is fed
WheelDeltas == { [kind |-> "Line", y |-> 1] }

\* what surface.get_current_texture() gives State::render
RenderResults == { "Ok", "Lost", "OutOfMemory", "Timeout" }

\* width as f32 / height as f32
Aspect(width, height) == FDiv(FInt(width), FInt(height))

\* Projection::new; fov, znear and zfar never change and are left out
ProjectionNew(width, height) == [ aspect |-> Aspect(width, height) ]

\* Projection::resize
ProjectionResize(proj, width, height) == [proj EXCEPT !.aspect = Aspect(width, height)]

\* CameraUniform::update_view_proj: the camera and projection the uniform is built from
UpdateViewProj(cam, proj) == [ camera |-> cam, projection |-> proj ]

\* State::resize with its guard passing when either dimension is non-zero
ResizeSize_EitherNonZero(old, new_size) ==
    IF new_size.width > 0 \/ new_size.height > 0 THEN new_size ELSE old

\* State::resize: the size it leaves
ResizeSize(old, new_size) ==
    IF new_size.width > 0 /\ new_size.height > 0 THEN new_size ELSE old

\* State::resize: the calls it makes, in order
ResizeCalls(new_size) ==
    (IF new_size.width > 0 /\ new_size.height > 0
     THEN << <<"Surface::configure", <<new_size.width, new_size.height>> >> >>
     ELSE << >>)
    \o << <<"Texture::create_depth_texture", << >> >>,
          <<"Projection::resize", <<new_size.width, new_size.height>> >> >>

\* State::resize, as a handler's whole effect on State
StateResize(new_size) ==
    /\ size' = ResizeSize(size, new_size)
    /\ config' = ResizeSize(config, new_size)
    /\ depth_texture' = config'
    /\ projection' = ProjectionResize(projection, new_size.width, new_size.height)

\* the log a handler starts from: a new iteration starts an empty one. Besides
\* the calls made, the log keeps the mouse events received, which may make none
FrameLog == IF phase = "presented" THEN << >> ELSE frame_calls

\* whether the loop delivers window and device events
Delivering == phase \in {"events", "presented"} /\ steps < MaxSteps

AppInit ==
    /\ size = WindowSize
    /\ config = WindowSize
    /\ depth_texture = WindowSize
    /\ projection = ProjectionNew(WindowSize.width, WindowSize.height)
    /\ camera = CameraNew(StartPosition, DegToRad(-90), DegToRad(-20))
    /\ camera_controller = CameraControllerNew(Speed, Sensitivity)
    /\ mouse_pressed = FALSE
    /\ camera_uniform = UpdateViewProj(camera, projection)
    /\ control_flow = "Poll"
    /\ phase = "events"
    /\ frame_calls = << >>
    /\ pending_inputs = << >>
    /\ last_call = Call("new", << >>, FALSE)
    /\ steps = 0

\* MouseMotion handed to process_mouse whatever the button state
OnMouseMotion_Always ==
    /\ Delivering
    /\ \E delta \in MotionDeltas :
           /\ camera_controller' = ProcessMouse(camera_controller, delta[1], delta[2])
           /\ last_call' = Call("process_mouse", delta, FALSE)
           /\ pending_inputs' = Append(pending_inputs, <<"process_mouse", delta>>)
           /\ frame_calls' = FrameLog \o << <<"MouseMotion", delta>>, <<"process_mouse", delta>> >>
    /\ phase' = "events"
    /\ steps' = steps + 1
    /\ UNCHANGED <<camera, size, config, depth_texture, projection, mouse_pressed,
                   camera_uniform, control_flow>>
    /\ UNCHANGED <<meshVars, clipVars, drawVars>>

\* Event::DeviceEvent { event: DeviceEvent::MouseMotion { delta } }
OnMouseMotion ==
    /\ Delivering
    /\ \E delta \in MotionDeltas :
           IF mouse_pressed
           THEN /\ camera_controller' = ProcessMouse(camera_controller, delta[1], delta[2])
                /\ last_call' = Call("process_mouse", delta, FALSE)
                /\ pending_inputs' = Append(pending_inputs, <<"process_mouse", delta>>)
                /\ frame_calls' = FrameLog \o << <<"MouseMotion", delta>>,
                                                  <<"process_mouse", delta>> >>
           ELSE /\ frame_calls' = Append(FrameLog, <<"MouseMotion", delta>>)
                /\ UNCHANGED <<camera_controller, last_call, pending_inputs>>
    /\ phase' = "events"
    /\ steps' = steps + 1
    /\ UNCHANGED <<camera, size, config, depth_texture, projection, mouse_pressed,
                   camera_uniform, control_flow>>
    /\ UNCHANGED <<meshVars, clipVars, drawVars>>

\* WindowEvent::KeyboardInput: State::input calls process_keyboard; a key it
\* does not take is matched against Escape pressed
OnKeyboardInput ==
    /\ Delivering
    /\ \E key \in EventKeys, state \in ElementStates :
           /\ camera_controller' = ProcessKeyboard(camera_controller, key, state)
           /\ last_call' = Call("process_keyboard", <<key, state>>, ProcessKeyboardResult(key, state))
           /\ frame_calls' = Append(FrameLog, <<"process_keyboard", <<key, state>> >>)
           /\ IF ~ProcessKeyboardResult(key, state) /\ key = "Escape" /\ state = "Pressed"
              THEN control_flow' = "Exit" /\ phase' = "exited"
              ELSE control_flow' = "Poll" /\ phase' = "events"
    /\ steps' = steps + 1
    /\ UNCHANGED <<camera, pending_inputs, size, config, depth_texture, projection,
                   mouse_pressed, camera_uniform>>
    /\ UNCHANGED <<meshVars, clipVars, drawVars>>

\* MouseWheel moving the camera at once instead of leaving it to update_camera
OnMouseWheel_MovesCamera ==
    /\ Delivering
    /\ \E delta \in WheelDeltas :
           /\ camera' = UpdateCamera(ProcessScroll(camera_controller, delta), camera, 16)
           /\ camera_controller' = camera_controller
           /\ last_call' = Call("process_scroll", <<delta>>, FALSE)
           /\ pending_inputs' = pending_inputs
           /\ frame_calls' = Append(FrameLog, <<"process_scroll", delta>>)
    /\ phase' = "events"
    /\ steps' = steps + 1
    /\ UNCHANGED <<size, config, depth_texture, projection, mouse_pressed,
                   camera_uniform, control_flow>>
    /\ UNCHANGED <<meshVars, clipVars, drawVars>>

\* WindowEvent::MouseWheel
OnMouseWheel ==
    /\ Delivering
    /\ \E delta \in WheelDeltas :
           /\ camera_controller' = ProcessScroll(camera_controller, delta)
           /\ last_call' = Call("process_scroll", <<delta>>, FALSE)
           /\ pending_inputs' = Append(pending_inputs, <<"process_scroll", delta>>)
           /\ frame_calls' = Append(FrameLog, <<"process_scroll", delta>>)
    /\ phase' = "events"
    /\ steps' = steps + 1
    /\ UNCHANGED <<camera, size, config, depth_texture, projection, mouse_pressed,
                   camera_uniform, control_flow>>
    /\ UNCHANGED <<meshVars, clipVars, drawVars>>

\* WindowEvent::MouseInput: the left button sets mouse_pressed, any other
\* button falls through State::input and the match of run
OnMouseInput ==
    /\ Delivering
    /\ \E button \in MouseButtons, state \in ElementStates :
           /\ mouse_pressed' = IF button = "Left" THEN state = "Pressed" ELSE mouse_pressed
           /\ frame_calls' = Append(FrameLog, <<"MouseInput", <<button, state>> >>)
    /\ phase' = "events"
    /\ steps' = steps + 1
    /\ UNCHANGED <<camera, camera_controller, last_call, pending_inputs, size, config,
                   depth_texture, projection, camera_uniform, control_flow>>
    /\ UNCHANGED <<meshVars, clipVars, drawVars>>

\* WindowEvent::CloseRequested
OnCloseRequested ==
    /\ Delivering
    /\ control_flow' = "Exit"
    /\ phase' = "exited"
    /\ frame_calls' = FrameLog
    /\ steps' = steps + 1
    /\ UNCHANGED <<camera, camera_controller, last_call, pending_inputs, size, config,
                   depth_texture, projection, mouse_pressed, camera_uniform>>
    /\ UNCHANGED <<meshVars, clipVars, drawVars>>

\* WindowEvent::Resized(physical_size)
OnResized ==
    /\ Delivering
    /\ \E physical_size \in NewSizes :
           /\ StateResize(physical_size)
           /\ frame_calls' = FrameLog \o ResizeCalls(physical_size)
    /\ phase' = "events"
    /\ steps' = steps + 1
    /\ UNCHANGED <<camera, camera_controller, last_call, pending_inputs, mouse_pressed,
                   camera_uniform, control_flow>>
    /\ UNCHANGED <<meshVars, clipVars, drawVars>>

\* WindowEvent::ScaleFactorChanged { new_inner_size, .. }
OnScaleFactorChanged ==
    /\ Delivering
    /\ \E new_inner_size \in NewSizes :
           /\ StateResize(new_inner_size)
           /\ frame_calls' = FrameLog \o ResizeCalls(new_inner_size)
    /\ phase' = "events"
    /\ steps' = steps + 1
    /\ UNCHANGED <<camera, camera_controller, last_call, pending_inputs, mouse_pressed,
                   camera_uniform, control_flow>>
    /\ UNCHANGED <<meshVars, clipVars, drawVars>>

\* Event::MainEventsCleared: window.request_redraw()
OnMainEventsCleared ==
    /\ Delivering
    /\ phase' = "cleared"
    /\ frame_calls' = Append(FrameLog, <<"Window::request_redraw", << >> >>)
    /\ steps' = steps + 1
    /\ UNCHANGED <<camera, camera_controller, last_call, pending_inputs, size, config,
                   depth_texture, projection, mouse_pressed, camera_uniform, control_flow>>
    /\ UNCHANGED <<meshVars, clipVars, drawVars>>

\* State::update building the uniform before it moves the camera
StateUpdate_UniformFirst(dt) ==
    /\ camera_uniform' = UpdateViewProj(camera, projection)
    /\ camera' = UpdateCamera(camera_controller, camera, dt)
    /\ camera_controller' = UpdateController(camera_controller)
    /\ last_call' = Call("update_camera", <<dt>>, FALSE)
    /\ pending_inputs' = << >>

\* State::update: update_camera, then update_view_proj on the camera it left
StateUpdate(dt) ==
    /\ camera' = UpdateCamera(camera_controller, camera, dt)
    /\ camera_controller' = UpdateController(camera_controller)
    /\ last_call' = Call("update_camera", <<dt>>, FALSE)
    /\ pending_inputs' = << >>
    /\ camera_uniform' = UpdateViewProj(camera', projection)

\* State::update: the calls it makes on the camera, in order
UpdateCalls(dt) ==
    << <<"update_camera", <<dt>> >>, <<"update_view_proj", << >> >> >>

\* the match on the result of render leaving the loop on every error
RenderControlFlow_ExitOnError(result) == IF result = "Ok" THEN "Poll" ELSE "Exit"

\* the match on the result of State::render: only OutOfMemory sets
\* ControlFlow::Exit; the callback has set ControlFlow::Poll on entry
RenderControlFlow(result) == IF result = "OutOfMemory" THEN "Exit" ELSE "Poll"

\* Event::RedrawRequested: State::update(dt), then State::render and the
\* match on its result
OnRedrawRequested ==
    /\ phase = "cleared"
    /\ \E dt \in Durations, result \in RenderResults :
           /\ StateUpdate(dt)
           /\ IF result = "Lost"
              THEN /\ StateResize(size)
                   /\ frame_calls' = frame_calls \o UpdateCalls(dt) \o << <<"render", <<result>> >> >>
                                         \o ResizeCalls(size)
              ELSE /\ frame_calls' = frame_calls \o UpdateCalls(dt) \o << <<"render", <<result>> >> >>
                   /\ UNCHANGED <<size, config, depth_texture, projection>>
           /\ control_flow' = RenderControlFlow(result)
           /\ phase' = IF control_flow' = "Exit" THEN "exited" ELSE "presented"
    /\ steps' = steps + 1
    /\ UNCHANGED mouse_pressed
    /\ UNCHANGED <<meshVars, clipVars, drawVars>>

-----------------------------------------------------------------------------
(* camera.rs: OPENGL_TO_WGPU_MATRIX and Projection::calc_matrix            *)

\* 0.5
Half == <<"fin", 8388608, -24>>

\* cgmath's Matrix4::new with its sixteen arguments taken row by row
Matrix4New_RowMajor(a) == [c \in 1 .. 4 |-> [r \in 1 .. 4 |-> a[4 * (r - 1) + c]]]

\* cgmath's Matrix4::new(c0r0, c0r1, c0r2, c0r3, c1r0, ...): the arguments
\* fill the matrix column by column; m[c][r] is column c, row r
Matrix4New(a) == [c \in 1 .. 4 |-> [r \in 1 .. 4 |-> a[4 * (c - 1) + r]]]

\* the constant of lines 9-14, its arguments in the order they are written
OPENGL_TO_WGPU_MATRIX ==
    Matrix4New(<< FInt(1), FZero,   FZero, FZero,
                  FZero,   FInt(1), FZero, FZero,
                  FZero,   FZero,   Half,  FZero,
                  FZero,   FZero,   Half,  FInt(1) >>)

\* Matrix4 * Vector4
MatVec(m, v) ==
    [r \in 1 .. 4 |->
        FAdd(FAdd(FAdd(FMul(m[1][r], v[1]), FMul(m[2][r], v[2])), FMul(m[3][r], v[3])),
             FMul(m[4][r], v[4]))]

\* Matrix4 * Matrix4: column c of the product is the left matrix applied to
\* column c of the right one
MatMul(m, n) == [c \in 1 .. 4 |-> MatVec(m, n[c])]

\* what perspective(fov, aspect, znear, zfar) returns for a field of view of
\* a quarter turn: aspect 1, znear 1, zfar 3, and aspect 2, znear 1, zfar 2
PerspectiveMatrices ==
    { Matrix4New(<< FInt(1), FZero,   FZero,    FZero,
                    FZero,   FInt(1), FZero,    FZero,
                    FZero,   FZero,   FInt(-2), FInt(-1),
                    FZero,   FZero,   FInt(-3), FZero >>),
      Matrix4New(<< Half,    FZero,   FZero,    FZero,
                    FZero,   FInt(1), FZero,    FZero,
                    FZero,   FZero,   FInt(-3), FInt(-1),
                    FZero,   FZero,   FInt(-4), FZero >>) }

\* Projection::calc_matrix: OPENGL_TO_WGPU_MATRIX * perspective(...)
ProjectionCalcMatrix(perspective) == MatMul(OPENGL_TO_WGPU_MATRIX, perspective)

\* points in view space, in front of the camera (z < 0), w = 1
ViewPoints ==
    { <<FInt(x), FInt(y), FInt(z), FInt(1)>> :
        x \in {-1, 0, 2}, y \in {-1, 0, 1}, z \in {-1, -2, -3, -4} }

ClipInit ==
    /\ view_point \in [ perspective : PerspectiveMatrices, point : ViewPoints ]
    /\ clip_point = << >>

\* the matrix of Projection::calc_matrix applied to the point
Project ==
    /\ clip_point = << >>
    /\ view_point.point # << >>
    /\ clip_point' = MatVec(ProjectionCalcMatrix(view_point.perspective), view_point.point)
    /\ UNCHANGED view_point
    /\ UNCHANGED <<meshVars, camVars, appVars, drawVars>>

-----------------------------------------------------------------------------
(* resources.rs and model.rs: the materials of a model and their use       *)

MaxMeshes == 3

MaxMaterials == 2

\* Option<usize>: None is << >>, Some(k) is <<k>>
None == << >>

Some(k) == <<k>>

\* Option::unwrap_or
UnwrapOr(opt, default) == IF opt = None THEN default ELSE opt[1]

\* the material_id tobj gives a mesh of a file with n materials: None for a
\* mesh with no usemtl (or one naming no loaded material), else an index into
\* the materials it returns
MaterialIds(n) == {None} \cup { Some(k) : k \in 0..(n - 1) }

\* what tobj::load_obj_buf_async returns: the meshes' material ids and the
\* materials of the .mtl files, none when the file names no material library
ObjFiles ==
    UNION { [ models : UNION { [1..len -> MaterialIds(n)] : len \in 0..MaxMeshes },
              obj_materials : { [i \in 1..n |-> i] } ] : n \in 0..MaxMaterials }

\* the loop of lines 108-124: one model::Material pushed per tobj material
LoadMaterials(obj_materials) == [i \in 1..Len(obj_materials) |-> obj_materials[i]]

\* model::Mesh of lines 239-245: the material index of a tobj mesh
MeshMaterial(material_id) == UnwrapOr(material_id, 0)

\* a Vec indexed by a usize: in bounds or a panic
InBounds(vec, index) == index < Len(vec)

DrawInit ==
    /\ obj \in ObjFiles
    /\ model = [ meshes |-> << >>, materials |-> << >> ]
    /\ dpc = "parsed"
    /\ drawn = 0

\* load_obj_model from the parsed file on: Ok(Model { meshes, materials })
LoadObjModel ==
    /\ dpc = "parsed"
    /\ model' = [ meshes    |-> [i \in 1..Len(obj.models) |->
                                    [ material |-> MeshMaterial(obj.models[i]) ]],
                  materials |-> LoadMaterials(obj.obj_materials) ]
    /\ dpc' = "loaded"
    /\ UNCHANGED <<obj, drawn>>
    /\ UNCHANGED <<meshVars, camVars, appVars, clipVars>>

\* one iteration of the loop of draw_model_instanced:
\* &model.materials[mesh.material], then draw_mesh_instanced
DrawMesh ==
    /\ dpc = "loaded"
    /\ drawn < Len(model.meshes)
    /\ IF InBounds(model.materials, model.meshes[drawn + 1].material)
       THEN drawn' = drawn + 1 /\ dpc' = dpc
       ELSE drawn' = drawn /\ dpc' = "panicked"
    /\ UNCHANGED <<obj, model>>
    /\ UNCHANGED <<meshVars, camVars, appVars, clipVars>>

\* draw_model_instanced returning after the last mesh
DrawReturn ==
    /\ dpc = "loaded"
    /\ drawn = Len(model.meshes)
    /\ dpc' = "drawn"
    /\ UNCHANGED <<obj, model, drawn>>
    /\ UNCHANGED <<meshVars, camVars, appVars, clipVars>>

\* no model is being loaded or drawn
DrawIdle ==
    /\ obj = [ models |-> << >>, obj_materials |-> << >> ]
    /\ model = [ meshes |-> << >>, materials |-> << >> ]
    /\ dpc = "idle"
    /\ drawn = 0

\* no point is being projected
ClipIdle ==
    /\ view_point = [ perspective |-> << >>, point |-> << >> ]
    /\ clip_point = << >>

\* State::new has run and no event has been handled
AppIdle ==
    /\ size = WindowSize
    /\ config = WindowSize
    /\ depth_texture = WindowSize
    /\ projection = ProjectionNew(WindowSize.width, WindowSize.height)
    /\ mouse_pressed = FALSE
    /\ camera_uniform = UpdateViewProj(CameraNew(StartPosition, DegToRad(-90), DegToRad(-20)), projection)
    /\ control_flow = "Poll"
    /\ phase = "events"
    /\ frame_calls = << >>

\* no mesh is being loaded
MeshIdle ==
    /\ mesh = [ positions |-> <<>>, texcoords |-> <<>>, normals |-> <<>>, indices |-> <<>> ]
    /\ mpc = "idle"
    /\ vertices = <<>>
    /\ triangles_included = <<>>
    /\ chunk = 0

\* the camera of State::new, not yet driven
CamIdle ==
    /\ camera = CameraNew(StartPosition, DegToRad(-90), DegToRad(-20))
    /\ camera_controller = CameraControllerNew(Speed, Sensitivity)
    /\ pending_inputs = <<>>
    /\ last_call = Call("new", <<>>, FALSE)
    /\ steps = 0

CamNext == CallProcessKeyboard \/ CallProcessMouse \/ CallProcessScroll \/ CallUpdateCamera

InitCam == CamInit /\ MeshIdle /\ AppIdle /\ ClipIdle /\ DrawIdle

\* the calls of camera.rs, made in any order on a camera built by Camera::new
SpecCam == InitCam /\ [][CamNext]_vars

MeshNext == BuildVertices \/ ProcessTriangle \/ Average

InitMesh == MeshInit /\ CamIdle /\ AppIdle /\ ClipIdle /\ DrawIdle

\* the tangent/bitangent pass of load_obj_model on one mesh
SpecMesh == InitMesh /\ [][MeshNext]_vars

AppNext ==
    \/ OnMouseMotion
    \/ OnKeyboardInput
    \/ OnMouseWheel
    \/ OnMouseInput
    \/ OnCloseRequested
    \/ OnResized
    \/ OnScaleFactorChanged
    \/ OnMainEventsCleared
    \/ OnRedrawRequested

InitApp == AppInit /\ MeshIdle /\ ClipIdle /\ DrawIdle

\* the event loop of run, from State::new on
SpecApp == InitApp /\ [][AppNext]_vars

ClipNext == Project

InitClip == ClipInit /\ MeshIdle /\ CamIdle /\ AppIdle /\ DrawIdle

\* Projection::calc_matrix applied to one point
SpecClip == InitClip /\ [][ClipNext]_vars

DrawNext == LoadObjModel \/ DrawMesh \/ DrawReturn

InitDraw == DrawInit /\ MeshIdle /\ CamIdle /\ AppIdle /\ ClipIdle

\* load_obj_model building a Model, then draw_model_instanced drawing it
SpecDraw == InitDraw /\ [][DrawNext]_vars

-----------------------------------------------------------------------------
(* The tangent/bitangent pass                                              *)

\* C1 (as claimed): after the pass, every vertex that no triangle of the
\* index list references has tangent = bitangent = (0,0,0).
C1_UnreferencedVertexIsZero ==
    mpc = "done" =>
        \A i \in DOMAIN vertices :
            triangles_included[i] = 0 =>
                vertices[i].tangent = VZero /\ vertices[i].bitangent = VZero

\* C2 (as claimed): when the pass fails on a structurally inconsistent mesh,
\* it fails before any triangle of that mesh has been accumulated.
C2_FailsBeforeAnyAccumulation ==
    mpc = "panicked" =>
        /\ chunk = 0
        /\ \A i \in DOMAIN vertices :
               vertices[i].tangent = VZero /\ vertices[i].bitangent = VZero

-----------------------------------------------------------------------------
(* Projection::resize and the event loop                                   *)

\* the names of the calls of this iteration, in order
FrameNames == [i \in DOMAIN frame_calls |-> frame_calls[i][1]]

\* C3 (as claimed): whatever Resized and ScaleFactorChanged events arrive,
\* Projection::resize is never called with height = 0.
C3_ProjectionResizeHeightNonZero ==
    \A i \in DOMAIN frame_calls :
        frame_calls[i][1] = "Projection::resize" => frame_calls[i][2][2] # 0

InputCalls == { "process_keyboard", "process_mouse", "process_scroll" }

\* C7: in every frame that reached State::render, update_camera was called
\* exactly once, after every process_keyboard, process_mouse and
\* process_scroll call of the frame and just before update_view_proj, which
\* precedes render; the uniform is built from the camera update_camera left
\* and no pending rotation or scroll delta is left over.
C7_UpdateOncePerFrameAfterInputs ==
    (\E i \in DOMAIN frame_calls : frame_calls[i][1] = "render") =>
        LET U == { i \in DOMAIN frame_calls : FrameNames[i] = "update_camera" }
        IN  /\ Cardinality(U) = 1
            /\ \A u \in U :
                 /\ \A i \in DOMAIN frame_calls : FrameNames[i] \in InputCalls => i < u
                 /\ u + 1 \in DOMAIN frame_calls /\ FrameNames[u + 1] = "update_view_proj"
                 /\ \A i \in DOMAIN frame_calls : FrameNames[i] = "render" => i = u + 2
            /\ camera_uniform.camera = camera
            /\ camera_controller = UpdateController(last_call.camera_controller)

\* a frame with keyboard and scroll input that was rendered
C7_Witness ==
    /\ phase = "presented"
    /\ \E i \in DOMAIN frame_calls : frame_calls[i][1] = "process_keyboard"
    /\ \E i \in DOMAIN frame_calls : frame_calls[i][1] = "process_scroll"
    /\ \E i \in DOMAIN frame_calls : frame_calls[i] = <<"render", <<"Ok">> >>
    /\ camera # CameraNew(StartPosition, DegToRad(-90), DegToRad(-20))

-----------------------------------------------------------------------------
(* CameraController                                                        *)

PitchInRange(pitch) == -SAFE_FRAC_PI_2 <= pitch /\ pitch <= SAFE_FRAC_PI_2

DeltasCleared(c) == [c EXCEPT !.rotate_horizontal = 0, !.rotate_vertical = 0, !.scroll = 0]

C5_PitchClamped ==
    last_call.op = "update_camera" => PitchInRange(camera.pitch)

\* an update whose rotation would have carried the pitch past the limit
C5_Witness ==
    /\ last_call.op = "update_camera"
    /\ PitchInRange(last_call.camera.pitch)
    /\ last_call.camera.pitch
         - last_call.camera_controller.rotate_vertical
             * last_call.camera_controller.sensitivity * last_call.args[1] > SAFE_FRAC_PI_2
    /\ camera.pitch = SAFE_FRAC_PI_2

NoKeyHeld(c) ==
    /\ c.amount_forward = c.amount_backward
    /\ c.amount_left = c.amount_right
    /\ c.amount_up = c.amount_down

\* C6: right after every update_camera the rotation and scroll deltas are
\* 0; an update_camera with no process_mouse or process_scroll call since
\* the previous one leaves the yaw as it was, leaves a pitch within the
\* limits as it was, and, with no key held, leaves the position as it was.
C6_NoPhantomMotion ==
    last_call.op = "update_camera" =>
        /\ camera_controller.rotate_horizontal = 0
        /\ camera_controller.rotate_vertical = 0
        /\ camera_controller.scroll = 0
        /\ last_call.pending_inputs = << >> =>
             /\ camera.yaw = last_call.camera.yaw
             /\ PitchInRange(last_call.camera.pitch) => camera.pitch = last_call.camera.pitch
             /\ NoKeyHeld(last_call.camera_controller) => camera.position = last_call.camera.position

\* a second update with dt > 0 and no input since a first one that rotated
C6_Witness ==
    /\ last_call.op = "update_camera"
    /\ last_call.args[1] > 0
    /\ last_call.pending_inputs = << >>
    /\ \A a \in CameraChoices : last_call.camera.yaw # DegToRad(a[1])

\* the places of the process_mouse calls among the pending inputs
MouseCalls(p) == { i \in DOMAIN p : p[i][1] = "process_mouse" }

LastOf(S) == CHOOSE i \in S : \A j \in S : j <= i

FirstOf(S) == CHOOSE i \in S : \A j \in S : i <= j

\* C8: when process_mouse was called several times before an
\* update_camera, the update rotates the yaw, and the pitch up to its clamp,
\* by the deltas of the last call alone.
C8_LastMouseCallWins ==
    (last_call.op = "update_camera" /\ MouseCalls(last_call.pending_inputs) # {}) =>
        LET p   == last_call.pending_inputs
            d   == p[LastOf(MouseCalls(p))][2]
            k   == last_call.camera_controller.sensitivity * last_call.args[1]
            raw == last_call.camera.pitch - d[2] * k
        IN  /\ camera.yaw = last_call.camera.yaw + d[1] * k
            /\ PitchInRange(raw) => camera.pitch = raw

\* two process_mouse calls with different deltas, then an update with dt > 0
\* that the clamp does not cut
C8_Witness ==
    /\ last_call.op = "update_camera"
    /\ last_call.args[1] > 0
    /\ LET p == last_call.pending_inputs
       IN  /\ Cardinality(MouseCalls(p)) >= 2
           /\ p[FirstOf(MouseCalls(p))][2][1] # p[LastOf(MouseCalls(p))][2][1]
           /\ p[FirstOf(MouseCalls(p))][2][2] # p[LastOf(MouseCalls(p))][2][2]
    /\ camera.pitch # last_call.camera.pitch
    /\ PitchInRange(camera.pitch + 1) /\ PitchInRange(camera.pitch - 1)

AmountFields ==
    { "amount_left", "amount_right", "amount_forward", "amount_backward",
      "amount_up", "amount_down" }

\* the keys whose press process_keyboard takes and turns into amount f = 1.0
BoundKeys(f) ==
    { k \in VirtualKeyCodes :
        /\ ProcessKeyboardResult(k, "Pressed")
        /\ ProcessKeyboard(CameraControllerNew(Speed, Sensitivity), k, "Pressed")[f] = 1 }

\* C9 (as claimed): a key that process_keyboard takes sets its intent to
\* 1.0 when pressed and 0.0 when released, and that intent is bound to two
\* distinct keys.
C9_EveryIntentHasTwoKeys ==
    (last_call.op = "process_keyboard" /\ last_call.result) =>
        \A f \in AmountFields :
            last_call.args[1] \in BoundKeys(f) =>
                /\ camera_controller[f] = (IF last_call.args[2] = "Pressed" THEN 1 ELSE 0)
                /\ Cardinality(BoundKeys(f)) = 2

\* C9 (amended): a key that process_keyboard takes sets its intent to 1.0
\* when pressed and 0.0 when released; forward, backward, left and right are
\* each bound to two keys, up and down to one key each, and every intent has
\* a key.
C9_FourIntentsHaveTwoKeys ==
    /\ steps = 0 => \A f \in AmountFields : BoundKeys(f) # {}
    /\ (last_call.op = "process_keyboard" /\ last_call.result) =>
        \A f \in AmountFields :
            last_call.args[1] \in BoundKeys(f) =>
                /\ camera_controller[f] = (IF last_call.args[2] = "Pressed" THEN 1 ELSE 0)
                /\ Cardinality(BoundKeys(f)) = (IF f \in {"amount_up", "amount_down"} THEN 1 ELSE 2)

\* Space pressed while the up intent was 0: the one key bound to up
C9_Witness ==
    /\ last_call.op = "process_keyboard"
    /\ last_call.args = <<"Space", "Pressed">>
    /\ last_call.result
    /\ camera_controller.amount_up = 1
    /\ last_call.camera_controller.amount_up = 0

\* the keys of the explicit arms of process_keyboard
MovementKeys ==
    { "W", "Up", "S", "Down", "A", "Left", "D", "Right", "Space", "LShift" }

ChangedFields(c, d) == { f \in ControllerFields : c[f] # d[f] }

\* C10: process_keyboard returns false for a key outside the movement set
\* and then changes no field of the controller; for a movement key it
\* returns true and changes at most the one amount bound to that key.
C10_KeyboardFrame ==
    last_call.op = "process_keyboard" =>
        LET changed == ChangedFields(camera_controller, last_call.camera_controller)
        IN  IF last_call.args[1] \in MovementKeys
            THEN /\ last_call.result
                 /\ changed \subseteq AmountFields
                 /\ Cardinality(changed) <= 1
                 /\ \A f \in changed : last_call.args[1] \in BoundKeys(f)
            ELSE /\ ~last_call.result
                 /\ changed = {}

\* Escape pressed on a controller with a key held and a pending mouse delta
C10_Witness ==
    /\ last_call.op = "process_keyboard"
    /\ last_call.args = <<"Escape", "Pressed">>
    /\ ~last_call.result
    /\ last_call.camera_controller.amount_forward = 1
    /\ last_call.camera_controller.rotate_horizontal # 0

\* C11: from yaw = 0 and pitch = 0, with the forward amount at 1, every other
\* amount at 0 and no pending rotation or scroll delta, update_camera with
\* dt = 1 s moves the position by exactly (speed, 0, 0): y and z are left as
\* they were.
C11_ForwardOneSecond ==
    (/\ last_call.op = "update_camera"
     /\ last_call.args[1] = MsPerSec
     /\ last_call.camera.yaw = 0
     /\ last_call.camera.pitch = 0
     /\ last_call.camera_controller =
            [CameraControllerNew(Speed, Sensitivity) EXCEPT !.amount_forward = 1]) =>
        /\ camera.position[1] = last_call.camera.position[1] + Speed * PosScale
        /\ camera.position[2] = last_call.camera.position[2]
        /\ camera.position[3] = last_call.camera.position[3]

\* W pressed on the level camera looking along +x, then a one-second update
C11_Witness ==
    /\ last_call.op = "update_camera"
    /\ last_call.args[1] = MsPerSec
    /\ last_call.camera = CameraNew(StartPosition, 0, 0)
    /\ last_call.camera_controller =
           [CameraControllerNew(Speed, Sensitivity) EXCEPT !.amount_forward = 1]
    /\ camera.position # last_call.camera.position

-----------------------------------------------------------------------------
(* The tangent/bitangent pass: what a vertex ends with                     *)

\* the places of the index list that name vertex i (0-based)
OccurrencesOf(i) == { j \in DOMAIN mesh.indices : mesh.indices[j] = i }

\* the chunk (1-based) a place of the index list belongs to
ChunkOf(j) == (j - 1) \div 3 + 1

\* the vertices of a chunk as the pass reads them
ChunkVertex(c, k) == VertexAt(NewVertices(mesh), Chunk(mesh, c)[k])

\* T and B of a chunk, from the vertices as built
ChunkTangent(c) == TriangleTangent(ChunkVertex(c, 1), ChunkVertex(c, 2), ChunkVertex(c, 3))

ChunkBitangent(c) == TriangleBitangent(ChunkVertex(c, 1), ChunkVertex(c, 2), ChunkVertex(c, 3))

\* whether the uv determinant of a chunk is 0
ChunkDegenerate(c) ==
    UvDeterminant(ChunkVertex(c, 1), ChunkVertex(c, 2), ChunkVertex(c, 3)) = FZero

\* the sum, in the order of the index list, of the T of every occurrence of
\* vertex i among the first j places
RECURSIVE TangentSum(_, _)
TangentSum(i, j) ==
    IF j = 0 THEN VZero
    ELSE IF mesh.indices[j] = i THEN VAdd(ChunkTangent(ChunkOf(j)), TangentSum(i, j - 1))
    ELSE TangentSum(i, j - 1)

RECURSIVE BitangentSum(_, _)
BitangentSum(i, j) ==
    IF j = 0 THEN VZero
    ELSE IF mesh.indices[j] = i THEN VAdd(ChunkBitangent(ChunkOf(j)), BitangentSum(i, j - 1))
    ELSE BitangentSum(i, j - 1)

\* a vector divided by a count
VDivInt(u, n) == <<FDiv(u[1], FInt(n)), FDiv(u[2], FInt(n)), FDiv(u[3], FInt(n))>>

\* C12 (as claimed): after the pass, a vertex that occurs n >= 1 times in
\* the index list has as tangent (bitangent) the sum of the T (B) of its
\* occurrences divided by n.
C12_MeanByDivision ==
    mpc = "done" =>
        \A i \in DOMAIN vertices :
            LET n == Cardinality(OccurrencesOf(i - 1))
            IN  n >= 1 =>
                  /\ triangles_included[i] = n
                  /\ vertices[i].tangent = VDivInt(TangentSum(i - 1, Len(mesh.indices)), n)
                  /\ vertices[i].bitangent = VDivInt(BitangentSum(i - 1, Len(mesh.indices)), n)

\* C12 (amended): after the pass, a vertex that occurs n >= 1 times in the
\* index list has as tangent (bitangent) the sum of the T (B) of its
\* occurrences, every occurrence counted, multiplied by the f32 value 1.0 / n
\* and by nothing else.
C12_MeanOfContributions ==
    mpc = "done" =>
        \A i \in DOMAIN vertices :
            LET n == Cardinality(OccurrencesOf(i - 1))
            IN  n >= 1 =>
                  /\ triangles_included[i] = n
                  /\ vertices[i].tangent =
                        VScale(TangentSum(i - 1, Len(mesh.indices)), FDiv(FInt(1), FInt(n)))
                  /\ vertices[i].bitangent =
                        VScale(BitangentSum(i - 1, Len(mesh.indices)), FDiv(FInt(1), FInt(n)))

\* a vertex of two triangles whose T differ, with a finite mean
C12_Witness ==
    /\ mpc = "done"
    /\ \E i \in DOMAIN vertices :
         /\ Cardinality(OccurrencesOf(i - 1)) = 2
         /\ \E j, k \in OccurrencesOf(i - 1) :
                ChunkTangent(ChunkOf(j)) # ChunkTangent(ChunkOf(k))
         /\ VFinite(vertices[i].tangent)
         /\ vertices[i].tangent # VZero

\* C13: the triangle pos0 = (0,0,0), pos1 = (1,0,0), pos2 = (0,1,0) with
\* uv0 = (0,0), uv1 = (1,0), uv2 = (0,1) gives r = 1, T = (1,0,0) and
\* B = (0,-1,0); for every triangle, T is
\* (delta_pos1 * delta_uv2.y - delta_pos2 * delta_uv1.y) * r and B is
\* (delta_pos2 * delta_uv1.x - delta_pos1 * delta_uv2.x) * (-r).
C13_SolveAndFlip ==
    (mpc = "triangles" /\ chunk = 1) =>
        LET c  == Chunk(mesh, 1)
            p0 == Vec3At(mesh.positions, c[1])
            p1 == Vec3At(mesh.positions, c[2])
            p2 == Vec3At(mesh.positions, c[3])
            u0 == Vec2At(mesh.texcoords, c[1])
            u1 == Vec2At(mesh.texcoords, c[2])
            u2 == Vec2At(mesh.texcoords, c[3])
            delta_pos1 == VSub(p1, p0)
            delta_pos2 == VSub(p2, p0)
            delta_uv1  == <<FSub(u1[1], u0[1]), FSub(u1[2], u0[2])>>
            delta_uv2  == <<FSub(u2[1], u0[1]), FSub(u2[2], u0[2])>>
            r == FDiv(FInt(1), FSub(FMul(delta_uv1[1], delta_uv2[2]),
                                    FMul(delta_uv1[2], delta_uv2[1])))
            T == VScale(VSub(VScale(delta_pos1, delta_uv2[2]), VScale(delta_pos2, delta_uv1[2])), r)
            B == VScale(VSub(VScale(delta_pos2, delta_uv1[1]), VScale(delta_pos1, delta_uv2[1])), FNeg(r))
        IN  /\ Cardinality({c[1], c[2], c[3]}) = 3 =>
                \A k \in 1 .. 3 :
                    /\ vertices[c[k] + 1].tangent = T
                    /\ vertices[c[k] + 1].bitangent = B
            /\ (c = <<0, 1, 2>> /\ SubSeq(mesh.texcoords, 1, 6) = <<0,0,  1,0,  0,1>>) =>
                /\ r = FInt(1)
                /\ vertices[1].tangent = <<FInt(1), FInt(0), FInt(0)>>
                /\ vertices[1].bitangent = <<FInt(0), FInt(-1), FInt(0)>>

\* the triangle of the scenario, just processed
C13_Witness ==
    /\ mpc = "triangles"
    /\ chunk = 1
    /\ Chunk(mesh, 1) = <<0, 1, 2>>
    /\ mesh.texcoords = <<0,0,  1,0,  0,1,  1,1>>
    /\ vertices[3].bitangent = <<FInt(0), FInt(-1), FInt(0)>>

\* the chunks vertex i (0-based) occurs in
ChunksOf(i) == { ChunkOf(j) : j \in OccurrencesOf(i) }

\* C14 (as claimed): a vertex touched by k >= 1 triangles, none of them with
\* a uv determinant of 0, whose T are all equal ends with exactly that T as
\* its tangent, and likewise for B and its bitangent.
C14_MeanOfEqualIsExact ==
    mpc = "done" =>
        \A i \in DOMAIN vertices :
            LET cs == ChunksOf(i - 1)
            IN  (cs # {} /\ \A c \in cs : ~ChunkDegenerate(c)) =>
                  /\ (\A c, d \in cs : ChunkTangent(c) = ChunkTangent(d)) =>
                         \A c \in cs : vertices[i].tangent = ChunkTangent(c)
                  /\ (\A c, d \in cs : ChunkBitangent(c) = ChunkBitangent(d)) =>
                         \A c \in cs : vertices[i].bitangent = ChunkBitangent(c)

\* C14 (amended): the same for a vertex touched by one or by two triangles.
C14_MeanOfOneOrTwoIsExact ==
    mpc = "done" =>
        \A i \in DOMAIN vertices :
            LET cs == ChunksOf(i - 1)
            IN  (/\ cs # {}
                 /\ \A c \in cs : ~ChunkDegenerate(c)
                 /\ Cardinality(OccurrencesOf(i - 1)) <= 2) =>
                  /\ (\A c, d \in cs : ChunkTangent(c) = ChunkTangent(d)) =>
                         \A c \in cs : vertices[i].tangent = ChunkTangent(c)
                  /\ (\A c, d \in cs : ChunkBitangent(c) = ChunkBitangent(d)) =>
                         \A c \in cs : vertices[i].bitangent = ChunkBitangent(c)

\* a vertex of two triangles of the stretched mapping, whose T are both
\* (0.1, 0, 0), and a vertex of one triangle
C14_Witness ==
    /\ mpc = "done"
    /\ mesh.texcoords = <<0,0,  10,0,  0,1,  10,1>>
    /\ \E i \in DOMAIN vertices :
         /\ Cardinality(ChunksOf(i - 1)) = 2
         /\ vertices[i].tangent = <<FDiv(FInt(1), FInt(10)), FInt(0), FInt(0)>>
    /\ \E i \in DOMAIN vertices : Cardinality(ChunksOf(i - 1)) = 1

\* no component is finite
VNonFinite(u) == ~IsFinite(u[1]) /\ ~IsFinite(u[2]) /\ ~IsFinite(u[3])

\* C15: a triangle whose uv determinant is 0 is processed like any other: it
\* is counted for its three vertices, and they end with a tangent and a
\* bitangent without a finite component; a vertex touched by a triangle and
\* by none of determinant 0 ends with a finite tangent and bitangent.
C15_DegenerateUvPropagates ==
    mpc = "done" =>
        \A i \in DOMAIN vertices :
            LET cs == ChunksOf(i - 1)
            IN  /\ triangles_included[i] = Cardinality(OccurrencesOf(i - 1))
                /\ (\E c \in cs : ChunkDegenerate(c)) =>
                       VNonFinite(vertices[i].tangent) /\ VNonFinite(vertices[i].bitangent)
                /\ (cs # {} /\ \A c \in cs : ~ChunkDegenerate(c)) =>
                       VFinite(vertices[i].tangent) /\ VFinite(vertices[i].bitangent)

\* a mesh with a triangle of determinant 0 and a regular one: a vertex of
\* both, and a vertex of the regular one alone
C15_Witness ==
    /\ mpc = "done"
    /\ \E i \in DOMAIN vertices :
         /\ \E c \in ChunksOf(i - 1) : ChunkDegenerate(c)
         /\ \E c \in ChunksOf(i - 1) : ~ChunkDegenerate(c)
         /\ ~IsFinite(vertices[i].tangent[1])
    /\ \E i \in DOMAIN vertices :
         /\ ChunksOf(i - 1) # {}
         /\ \A c \in ChunksOf(i - 1) : ~ChunkDegenerate(c)
         /\ VFinite(vertices[i].tangent)

-----------------------------------------------------------------------------
(* CameraController: scroll, amounts, and who moves the camera             *)

\* C16: process_scroll leaves as pending scroll -(lines * 100) for a line
\* delta and -(pixels) for a pixel delta, whatever scroll was pending, and
\* changes no other field of the controller.
C16_ScrollOverwrites ==
    last_call.op = "process_scroll" =>
        LET delta == last_call.args[1]
            magnitude == IF delta.kind = "Line" THEN delta.y * 100 ELSE delta.y
        IN  camera_controller = [last_call.camera_controller EXCEPT !.scroll = -magnitude]

\* a pixel scroll on a controller that held the scroll of a line delta
C16_Witness ==
    /\ last_call.op = "process_scroll"
    /\ last_call.args[1].kind = "Pixel"
    /\ last_call.camera_controller.scroll = -100
    /\ camera_controller.scroll = 30

\* C17: after any sequence of process_keyboard, process_mouse,
\* process_scroll and update_camera calls, each of the six amounts is 0 or 1.
C17_AmountsAreZeroOrOne ==
    \A f \in AmountFields : camera_controller[f] \in {0, 1}

\* keys pressed and released, then an update
C17_Witness ==
    /\ last_call.op = "update_camera"
    /\ camera_controller.amount_forward = 1
    /\ camera_controller.amount_down = 1
    /\ camera_controller.amount_left = 0
    /\ steps >= 3

\* C19 (as claimed): update_camera can be given a negative dt, which then
\* turns the yaw against the pending rotation.
C19_NegativeDtPropagates ==
    last_call.op = "update_camera" =>
        \E dt \in Durations :
            /\ dt < 0
            /\ UpdateCamera(last_call.camera_controller, last_call.camera, dt).yaw
                 = last_call.camera.yaw
                     + last_call.camera_controller.rotate_horizontal
                         * last_call.camera_controller.sensitivity * dt

\* C19 (amended): the dt of update_camera is a Duration and so never
\* negative; it is not validated or clamped otherwise: the yaw and, up to its
\* clamp, the pitch change by the pending rotation times sensitivity times
\* dt, for a second as for a frame.
C19_DurationPropagates ==
    last_call.op = "update_camera" =>
        LET dt  == last_call.args[1]
            k   == last_call.camera_controller.sensitivity * dt
            raw == last_call.camera.pitch - last_call.camera_controller.rotate_vertical * k
        IN  /\ dt >= 0
            /\ camera.yaw = last_call.camera.yaw + last_call.camera_controller.rotate_horizontal * k
            /\ PitchInRange(raw) => camera.pitch = raw

\* an update of one second with a pending rotation
C19_Witness ==
    /\ last_call.op = "update_camera"
    /\ last_call.args[1] = 1000
    /\ last_call.camera_controller.rotate_horizontal # 0
    /\ camera.yaw # last_call.camera.yaw

\* the update_camera calls of this iteration of the event loop
UpdatesInFrame == { i \in DOMAIN frame_calls : frame_calls[i][1] = "update_camera" }

\* C18: the camera's position, yaw and pitch change only in a step that
\* calls update_camera, which is the RedrawRequested arm; the handlers of
\* keyboard, mouse, wheel and resize events leave them as they are, and
\* update_camera is called at most once in an iteration of the loop.
C18_CameraMovedOnlyByUpdate ==
    /\ [][camera' # camera =>
            /\ phase = "cleared"
            /\ last_call'.op = "update_camera"
            /\ last_call'.camera = camera
            /\ frame_calls' # frame_calls]_vars
    /\ [](Cardinality(UpdatesInFrame) <= 1)

\* a frame with a key press and a resize, rendered, with the camera moved
C18_Witness ==
    /\ phase = "presented"
    /\ \E i \in DOMAIN frame_calls : frame_calls[i][1] = "process_keyboard"
    /\ \E i \in DOMAIN frame_calls : frame_calls[i][1] = "Projection::resize"
    /\ Cardinality(UpdatesInFrame) = 1
    /\ camera # CameraNew(StartPosition, DegToRad(-90), DegToRad(-20))

-----------------------------------------------------------------------------
(* Projection::calc_matrix                                                 *)

\* the point in clip space as perspective alone gives it
ClipBeforeCorrection == MatVec(view_point.perspective, view_point.point)

\* C20: the correction applied by Projection::calc_matrix leaves the clip
\* coordinates x, y and w as they are and maps z to 0.5 * z + 0.5 * w, so
\* that z = -w (depth -1) becomes 0 and z = w (depth +1) becomes w (depth 1).
C20_DepthRemapped ==
    clip_point # << >> =>
        LET c == ClipBeforeCorrection
        IN  /\ clip_point[1] = c[1]
            /\ clip_point[2] = c[2]
            /\ clip_point[4] = c[4]
            /\ clip_point[3] = FAdd(FMul(Half, c[3]), FMul(Half, c[4]))
            /\ c[3] = FNeg(c[4]) => clip_point[3] = FZero
            /\ c[3] = c[4] => clip_point[3] = clip_point[4]

\* a point of the near plane, off the axis
C20_Witness ==
    /\ clip_point # << >>
    /\ ClipBeforeCorrection[3] = FNeg(ClipBeforeCorrection[4])
    /\ ClipBeforeCorrection[4] # FZero
    /\ clip_point[1] # FZero
    /\ clip_point[3] = FZero

-----------------------------------------------------------------------------
(* update_camera: the order of its steps                                   *)

\* the position change of one update_camera when its three direction vectors
\* are taken at the given yaw and pitch
Displacement(c, yaw, pitch, dt) ==
    LET fwd  == (c.amount_forward - c.amount_backward) * c.speed * dt * SensScale
        side == (c.amount_right - c.amount_left) * c.speed * dt * SensScale
        zoom == c.scroll * c.speed * c.sensitivity * dt
        rise == (c.amount_up - c.amount_down) * c.speed * dt * TrigScale * SensScale
    IN  << Forward(yaw)[1] * fwd + Right(yaw)[1] * side + Scrollward(yaw, pitch)[1] * zoom,
           rise + Scrollward(yaw, pitch)[2] * zoom,
           Forward(yaw)[3] * fwd + Right(yaw)[3] * side + Scrollward(yaw, pitch)[3] * zoom >>

\* the yaw and the unclamped pitch after the rotation of one update_camera
RotatedYaw(c, cam, dt) == cam.yaw + c.rotate_horizontal * c.sensitivity * dt

RotatedPitch(c, cam, dt) == cam.pitch - c.rotate_vertical * c.sensitivity * dt

\* C21: within one update_camera the forward, right and scroll-ward
\* displacements are computed from the yaw and pitch held before that update;
\* the rotation of the same update is applied after the position changes and
\* the pitch clamp last, so a mouse delta changes the movement direction only
\* from the next update on.
C21_MoveThenRotateThenClamp ==
    last_call.op = "update_camera" =>
        LET c   == last_call.camera_controller
            cam == last_call.camera
            dt  == last_call.args[1]
            d   == Displacement(c, cam.yaw, cam.pitch, dt)
        IN  /\ camera.position = << cam.position[1] + d[1],
                                    cam.position[2] + d[2],
                                    cam.position[3] + d[3] >>
            /\ camera.yaw = RotatedYaw(c, cam, dt)
            /\ camera.pitch = ClampPitch(RotatedPitch(c, cam, dt))

\* an update with a key held and a mouse delta pending whose rotation would
\* have given another displacement
C21_Witness ==
    /\ last_call.op = "update_camera"
    /\ last_call.args[1] > 0
    /\ last_call.camera_controller.amount_forward = 1
    /\ last_call.camera_controller.rotate_horizontal # 0
    /\ camera.yaw # last_call.camera.yaw
    /\ camera.position # last_call.camera.position
    /\ Displacement(last_call.camera_controller, camera.yaw, camera.pitch,
                    last_call.args[1])
         # Displacement(last_call.camera_controller, last_call.camera.yaw,
                        last_call.camera.pitch, last_call.args[1])

\* C22: with no pending scroll delta, the forward/backward and left/right
\* intents never change position.y whatever the pitch, and the up/down intents
\* change position.y only, by (amount_up - amount_down) * speed * dt, leaving
\* x and z unchanged.
C22_HorizontalAndVerticalSeparate ==
    (last_call.op = "update_camera" /\ last_call.camera_controller.scroll = 0) =>
        LET c   == last_call.camera_controller
            cam == last_call.camera
            dt  == last_call.args[1]
        IN  /\ camera.position[2] =
                   cam.position[2]
                     + (c.amount_up - c.amount_down) * c.speed * dt * (PosScale \div MsPerSec)
            /\ (c.amount_forward = c.amount_backward /\ c.amount_left = c.amount_right) =>
                   /\ camera.position[1] = cam.position[1]
                   /\ camera.position[3] = cam.position[3]

\* a pitched camera moved with no scroll pending
HorizontalMove ==
    /\ last_call.op = "update_camera"
    /\ last_call.args[1] > 0
    /\ last_call.camera_controller.scroll = 0
    /\ last_call.camera.pitch # 0

\* W and Space held on a pitched camera: the position moves in the horizontal
\* plane and rises
C22_Witness ==
    /\ HorizontalMove
    /\ last_call.camera_controller.amount_forward = 1
    /\ last_call.camera_controller.amount_up = 1
    /\ last_call.camera_controller.amount_down = 0
    /\ << camera.position[1], camera.position[3] >>
         # << last_call.camera.position[1], last_call.camera.position[3] >>
    /\ camera.position[2] > last_call.camera.position[2]

-----------------------------------------------------------------------------
(* The scroll-ward vector and the view direction                           *)

Cross(u, v) ==
    << u[2] * v[3] - u[3] * v[2],
       u[3] * v[1] - u[1] * v[3],
       u[1] * v[2] - u[2] * v[1] >>

Dot(u, v) == u[1] * v[1] + u[2] * v[2] + u[3] * v[3]

\* two vectors of length TrigScale point the same way: their cross product
\* vanishes up to what the rounding of their components (under two parts in
\* TrigScale each) can contribute
Parallel(u, v) ==
    /\ \A i \in 1..3 : Abs(Cross(u, v)[i]) <= 6 * TrigScale
    /\ Dot(u, v) > 0

\* C23: for every yaw and pitch, the scroll-ward vector used by update_camera
\* is parallel to the forward direction that Camera::calc_matrix uses for the
\* view matrix.
C23_ScrollwardAlongView ==
    (last_call.op = "update_camera" /\ last_call.camera_controller.scroll # 0) =>
        Parallel(Scrollward(last_call.camera.yaw, last_call.camera.pitch),
                 CalcMatrixDirection(last_call.camera))

-----------------------------------------------------------------------------
(* Key events and the intents they set                                     *)

\* the six intent amounts of a controller
Intents(c) == [f \in AmountFields |-> c[f]]

\* a press of one key directly followed by the release of another key bound
\* to the same intent: the first key is still down after the second call
AliasReleased ==
    /\ steps' = steps + 1
    /\ last_call.op = "process_keyboard"
    /\ last_call'.op = "process_keyboard"
    /\ last_call.args[2] = "Pressed"
    /\ last_call'.args[2] = "Released"
    /\ last_call.args[1] # last_call'.args[1]
    /\ KeyField(last_call.args[1]) # "none"
    /\ KeyField(last_call.args[1]) = KeyField(last_call'.args[1])

\* C24: after any sequence of key events, each intent amount equals the
\* pressed/released state of the most recent event on any key bound to it, not
\* the logical OR of its keys: a key event sets the amount of its intent to its
\* own state and leaves the other intents, every other call leaves all of them,
\* and releasing one alias while the other is still held sets the intent to 0.
C24_LastKeyEventWins ==
    /\ [](last_call.op = "process_keyboard" =>
             LET f == KeyField(last_call.args[1])
             IN  /\ f # "none" => camera_controller[f] = KeyAmount(last_call.args[2])
                 /\ \A g \in AmountFields \ {f} :
                        camera_controller[g] = last_call.camera_controller[g])
    /\ [](last_call.op \in {"process_mouse", "process_scroll", "update_camera"} =>
             Intents(camera_controller) = Intents(last_call.camera_controller))
    /\ [][AliasReleased =>
             /\ camera_controller[KeyField(last_call.args[1])] = 1
             /\ camera_controller'[KeyField(last_call.args[1])] = 0]_vars

\* W released while the forward intent was set
C24_Witness ==
    /\ last_call.op = "process_keyboard"
    /\ last_call.args = <<"W", "Released">>
    /\ last_call.camera_controller.amount_forward = 1
    /\ camera_controller.amount_forward = 0

\* the fields of the controller that update_camera only reads
SettingFields == AmountFields \cup {"speed", "sensitivity"}

\* C25: update_camera leaves the six intent amounts, speed and sensitivity
\* unchanged, so an intent set by a key press stays in effect over any number
\* of consecutive updates until a key event for that same intent arrives: an
\* update that finds the forward intent alone set moves the camera, whatever
\* number of updates came before it.
C25_UpdateKeepsIntents ==
    last_call.op = "update_camera" =>
        /\ \A f \in SettingFields : camera_controller[f] = last_call.camera_controller[f]
        /\ (/\ last_call.args[1] > 0
            /\ last_call.camera_controller.scroll = 0
            /\ Intents(last_call.camera_controller) =
                   [f \in AmountFields |-> IF f = "amount_forward" THEN 1 ELSE 0]) =>
               /\ camera.position # last_call.camera.position
               /\ camera.position[2] = last_call.camera.position[2]

\* an update that moves the camera forward after an earlier update already
\* moved it, with the forward intent still set afterwards
C25_Witness ==
    /\ last_call.op = "update_camera"
    /\ last_call.args[1] > 0
    /\ last_call.camera_controller.amount_forward = 1
    /\ last_call.camera.position # StartPosition
    /\ camera.position # last_call.camera.position
    /\ camera_controller.amount_forward = 1

-----------------------------------------------------------------------------
(* The left mouse button and mouse motion                                  *)

\* the left-button events in the log of the current iteration
LeftButtonEvents ==
    { i \in DOMAIN frame_calls :
          frame_calls[i][1] = "MouseInput" /\ frame_calls[i][2][1] = "Left" }

\* the entries a step adds to the log
Logged == SubSeq(frame_calls', Len(FrameLog) + 1, Len(frame_calls'))

\* a step that handles a MouseMotion event
MotionStep ==
    /\ steps' = steps + 1
    /\ Len(frame_calls') > Len(FrameLog)
    /\ Logged[1][1] = "MouseMotion"

\* a step that handles a MouseInput event of the left button
LeftButtonStep ==
    /\ steps' = steps + 1
    /\ Len(frame_calls') > Len(FrameLog)
    /\ Logged[1][1] = "MouseInput"
    /\ Logged[1][2][1] = "Left"

RotationDeltas(c) == <<c.rotate_horizontal, c.rotate_vertical>>

-----------------------------------------------------------------------------
(* State::resize: the stored size and the surface configuration            *)

NonZero(s) == s.width > 0 /\ s.height > 0

\* the sizes State::resize was called with in a step, read from the
\* Projection::resize calls it logged
ResizeRequests ==
    { [width |-> Logged[i][2][1], height |-> Logged[i][2][2]] :
          i \in { j \in DOMAIN Logged : Logged[j][1] = "Projection::resize" } }

\* C27: State::resize never sets the stored size or the surface configuration
\* to a zero width or height: a resize request with a zero dimension leaves
\* size and config.width/config.height unchanged, so from a non-zero initial
\* window size they stay non-zero after any sequence of resize events and
\* surface-lost recoveries.
C27_SizeStaysNonZero ==
    /\ [](NonZero(size) /\ NonZero(config))
    /\ [][(steps' = steps + 1) =>
             \A r \in ResizeRequests :
                 IF NonZero(r)
                 THEN size' = r /\ config' = r
                 ELSE size' = size /\ config' = config]_vars

\* a resize to 400x300, a resize with a zero dimension and a surface-lost
\* recovery in one iteration: size and config are still 400x300
C27_Witness ==
    /\ \E i \in DOMAIN frame_calls :
           /\ frame_calls[i][1] = "Projection::resize"
           /\ frame_calls[i][2][2] = 0
    /\ \E i \in DOMAIN frame_calls : frame_calls[i] = <<"render", <<"Lost">> >>
    /\ size = [width |-> 400, height |-> 300]
    /\ config = size

\* C28: after every State::resize the projection's aspect equals
\* config.width / config.height of the surface configuration: the projection
\* is recomputed exactly when, and to the same size as, the output surface
\* changes.
C28_AspectMatchesSurface ==
    (\E i \in DOMAIN frame_calls : frame_calls[i][1] = "Projection::resize") =>
        projection.aspect = Aspect(config.width, config.height)

-----------------------------------------------------------------------------
(* The match on the result of State::render                                *)

\* where the log of the current iteration holds the render call
RenderIndex == { i \in DOMAIN frame_calls : frame_calls[i][1] = "render" }

\* the result of the render call of the current iteration
RenderResult == frame_calls[LastOf(RenderIndex)][2][1]

\* the calls logged after the render call
AfterRender == SubSeq(frame_calls, LastOf(RenderIndex) + 1, Len(frame_calls))

\* C29: when render fails in a redraw: on SurfaceError::Lost the surface is
\* reconfigured with the currently stored size and the loop continues; on
\* SurfaceError::OutOfMemory control flow becomes Exit; on any other error the
\* loop does not exit and a new redraw is still requested on the next
\* MainEventsCleared.
C29_RenderErrorHandling ==
    /\ []((RenderIndex # {} /\ RenderResult = "Lost") =>
             /\ AfterRender = ResizeCalls(size)
             /\ AfterRender[1] = <<"Surface::configure", <<size.width, size.height>> >>
             /\ config = size
             /\ control_flow = "Poll"
             /\ phase = "presented")
    /\ []((RenderIndex # {} /\ RenderResult = "OutOfMemory") =>
             /\ control_flow = "Exit"
             /\ phase = "exited")
    /\ []((RenderIndex # {} /\ RenderResult \notin {"Ok", "Lost", "OutOfMemory"}) =>
             /\ AfterRender = << >>
             /\ control_flow = "Poll"
             /\ phase = "presented")
    /\ [][(phase = "presented" /\ phase' = "cleared") =>
             /\ RenderResult # "OutOfMemory"
             /\ frame_calls' = << <<"Window::request_redraw", << >> >> >>
             /\ control_flow' = "Poll"]_vars

\* a resize to 400x300, then a redraw whose render reports the surface lost:
\* the surface is configured again at 400x300 and the loop goes on
C29_Witness ==
    /\ RenderIndex # {}
    /\ RenderResult = "Lost"
    /\ size = [width |-> 400, height |-> 300]
    /\ AfterRender[1] = <<"Surface::configure", <<400, 300>> >>
    /\ control_flow = "Poll"

-----------------------------------------------------------------------------
(* The material index of a mesh                                            *)

\* C30: for every mesh of a model returned by load_obj_model, mesh.material
\* is a valid index into model.materials, so draw_model_instanced never
\* indexes the materials list out of bounds (including for meshes without a
\* material id and models with no materials).
C30_MaterialIndexInBounds ==
    /\ dpc \in {"loaded", "drawn", "panicked"} =>
           \A i \in DOMAIN model.meshes :
               InBounds(model.materials, model.meshes[i].material)
    /\ dpc # "panicked"

=============================================================================
